---- MODULE Spec2Model ----
(***************************************************************************)
(* Model of the PSK payload cryptography core of librist                   *)
(* (src/src/crypto/psk.c): the rist_key context, key derivation, the       *)
(* AES-CTR transform and the nonce rotation logic of encrypt and decrypt.   *)
(*                                                                         *)
(* PBKDF2 and AES are library code.  They are modelled symbolically: a     *)
(* derived key is the triple (password string, key bits, salt) it was      *)
(* derived from, and a buffer is its data together with the set of         *)
(* keystreams (key, IV) XORed onto it, so that XORing the same keystream   *)
(* twice cancels and any other combination does not.                       *)
(***************************************************************************)
EXTENDS Integers, Sequences, FiniteSets, TLC

(* ------------------------------------------------------------------ *)
(* Bounds.  The first two stand for values set in headers: they are    *)
(* scaled down, and every property below is stated relative to them.   *)
(* ------------------------------------------------------------------ *)

\* RIST_AES_KEY_REUSE_TIMES, the hard cap on packets per derived key.
RIST_AES_KEY_REUSE_TIMES == 3

\* sizeof(key->password), the size of the passphrase buffer in bytes.
PwdSize == 3

\* prand_u32() returns a value in 0..MaxNonce.
MaxNonce == 2

\* bad_count is counted up to MaxBad by the receive path.
MaxBad == 1

Peers == {1, 2}
Nonces == 1..MaxNonce
Backends == {"mbedtls", "nettle", "linux", "builtin"}

\* The (password, key_size, rotation) triples handed to init.
Params ==
    { [password |-> <<1, 2>>, key_size |-> 128, rotation |-> 0],
      [password |-> <<2>>,    key_size |-> 256, rotation |-> 2] }

\* The passphrases handed to set_passphrase; the last is one byte too long.
PassIn == { <<1>>, [i \in 1..PwdSize |-> 1] }

\* What successive prand_u32() calls return during one draw loop.
Draws == { <<n>> : n \in Nonces } \cup { <<0, MaxNonce>> }

\* The packets handed to encrypt and decrypt: sequence number in network
\* byte order, GRE version, payload.  A buffer is [data, pads].
Packets ==
    { [seq |-> <<0, 0, 0, 1>>, ver |-> 0, data |-> 1],
      [seq |-> <<0, 0, 1, 0>>, ver |-> 1, data |-> 2] }

\* The packet handed to encrypt and decrypt where every sequence of calls on
\* one context is explored.
CallPackets == { [seq |-> <<0, 0, 0, 1>>, ver |-> 0, data |-> 1] }

\* Sequence numbers, GRE versions and payload lengths for the counter blocks.
CtrSeqs ==
    { <<0, 0, 0, 0>>, <<0, 0, 0, 1>>, <<0, 0, 0, 2>>, <<0, 0, 0, 255>>,
      <<0, 0, 1, 0>>, <<255, 255, 255, 255>> }
CtrVers == {0, 1, 2}
CtrLens == {16, 17, 33}

NoCtr == [ a |-> <<0, 0, 0, 0>>, b |-> <<0, 0, 0, 0>>, ver |-> 0,
           lena |-> 0, lenb |-> 0, iva |-> <<>>, ivb |-> <<>>,
           blocksa |-> {}, blocksb |-> {}, calls |-> {} ]

\* No call in progress: the position in the code, the call and its packet,
\* the values prand_u32 returned during the call, the value returned.
NoRun == [ pc |-> "idle", op |-> "none",
           pkt |-> [seq |-> <<0, 0, 0, 0>>, ver |-> 0, data |-> 0],
           seen |-> {}, ret |-> 0 ]

Buf(d) == [data |-> d, pads |-> {}]
NoBuf == Buf(0)
NoPacket == [nonce |-> 0, seq |-> <<0, 0, 0, 0>>, ver |-> 0, buf |-> NoBuf, full |-> FALSE]

(* ------------------------------------------------------------------ *)
(* struct rist_key and the library primitives                          *)
(* ------------------------------------------------------------------ *)

\* A zeroed cipher context (mbedtls_aes_init, memset of nettle_ctx, calloc).
\* A loaded one is named by the key it holds: PBKDF2 of (pwd, salt) for
\* bits / 8 bytes, expanded into the round keys of AES-bits.
EmptyCipher == [pwd |-> <<>>, bits |-> 0, salt |-> 0]

\* struct rist_key in zeroed memory.  The cipher context is one block of
\* round keys: cipher is the key loaded last, rest the longer keys loaded
\* before it whose last round keys still lie behind it (shortest first).
\* linux_crypto_ctx (LINUX_CRYPTO build) is <<>> for a null pointer, else
\* <<c>> for a kernel cipher context holding the key c.
ZeroKey ==
    [ password       |-> [i \in 1..PwdSize |-> 0],
      key_size       |-> 0,
      key_rotation   |-> 0,
      gre_nonce      |-> 0,
      used_times     |-> 0,
      bad_decryption |-> FALSE,
      bad_count      |-> 0,
      cipher         |-> EmptyCipher,
      rest           |-> <<>>,
      linux_crypto_ctx |-> <<>> ]

\* strlen-delimited contents of a char buffer.
RECURSIVE CStr(_)
CStr(b) ==
    IF b = <<>> \/ Head(b) = 0 THEN <<>> ELSE <<Head(b)>> \o CStr(Tail(b))

\* strcpy(dst, s): the bytes of s and the terminating NUL; the rest of dst stays.
StrCpy(dst, s) ==
    [i \in 1..Len(dst) |->
        IF i <= Len(s) THEN s[i] ELSE IF i = Len(s) + 1 THEN 0 ELSE dst[i]]

\* memcpy(dst, s, n): n bytes of s, no terminator.
MemCpy(dst, s, n) ==
    [i \in 1..Len(dst) |-> IF i <= n THEN s[i] ELSE dst[i]]

\* The cipher context after the backend's init call.
CipherInit(backend, cipher) ==
    IF backend \in {"builtin", "linux"} THEN cipher ELSE EmptyCipher

\* The cipher context after the backend's free call.
CipherFree(backend, cipher) ==
    IF backend = "mbedtls" THEN EmptyCipher ELSE cipher

\* The round keys left behind the loaded key by the backend's init call.
RestInit(backend, rest) ==
    IF backend \in {"builtin", "linux"} THEN rest ELSE <<>>

\* What linux_crypto_init leaves in key->linux_crypto_ctx: a new kernel
\* context with no key, or a null pointer when the kernel gives none.  The
\* other builds have no such field.
LinuxCryptoInit(backend, kernel) ==
    IF backend = "linux" /\ kernel THEN <<EmptyCipher>> ELSE <<>>

\* linux_crypto_free(&key->linux_crypto_ctx): the context is released and
\* the pointer is null.
LinuxCryptoFree(backend, linux_crypto_ctx) ==
    IF backend = "linux" THEN <<>> ELSE linux_crypto_ctx

\* The round keys left behind the loaded key by the backend's free call.
RestFree(backend, rest) ==
    IF backend = "mbedtls" THEN <<>> ELSE rest

\* The round keys left behind a key of `bits` bits loaded over (cipher, rest):
\* those of every longer key loaded before.
RestLoad(cipher, rest, bits) ==
    LET Longer(c) == c.bits > bits
    IN  SelectSeq((IF cipher = EmptyCipher THEN <<>> ELSE <<cipher>>) \o rest, Longer)

\* The key the transform runs under: the one the kernel context holds when
\* there is such a context, else the one in the software cipher state.
Loaded(key) ==
    IF key.linux_crypto_ctx # <<>> THEN key.linux_crypto_ctx[1] ELSE key.cipher

\* The AES variant the transform runs: mbedtls and a kernel context keep it
\* with the key, set when the key was loaded; nettle and the built-in AES
\* (also the LINUX_CRYPTO build without a kernel context) take it from
\* key_size at the call (nettle: 128 unless 192 or 256).
AesVariant(backend, key) ==
    IF backend = "mbedtls" \/ key.linux_crypto_ctx # <<>> THEN Loaded(key).bits
    ELSE IF backend = "nettle"
         THEN (IF key.key_size \in {192, 256} THEN key.key_size ELSE 128)
         ELSE key.key_size

\* The round keys the transform reads: those of the loaded key and, when
\* the variant runs more rounds than that key has, those lying behind it
\* in the software cipher state (a kernel context has its key only).
Schedule(backend, key) ==
    LET v == AesVariant(backend, key)
        Below(i) == IF i = 1 THEN key.cipher.bits ELSE key.rest[i - 1].bits
        read == IF key.linux_crypto_ctx # <<>> THEN {}
                ELSE { i \in 1..Len(key.rest) : Below(i) < v }
    IN  [ cipher  |-> Loaded(key),
          variant |-> v,
          rest    |-> [i \in 1..Cardinality(read) |-> key.rest[i]] ]

\* Variant of IV: seq copied in the opposite byte order.
IV_reversed(seq_nbe, gre_version) ==
    LET copy_offset == IF gre_version = 1 THEN 0 ELSE 12
    IN  [i \in 1..16 |->
            IF i > copy_offset /\ i <= copy_offset + 4
            THEN seq_nbe[5 - (i - copy_offset)] ELSE 0]

\* Variant of IV: the two offsets exchanged.
IV_swapped(seq_nbe, gre_version) ==
    LET copy_offset == IF gre_version = 1 THEN 12 ELSE 0
    IN  [i \in 1..16 |->
            IF i > copy_offset /\ i <= copy_offset + 4
            THEN seq_nbe[i - copy_offset] ELSE 0]

\* The 16-byte IV: zeroes, with seq at offset 0 (version 1) or 12.
IV(seq_nbe, gre_version) ==
    LET copy_offset == IF gre_version = 1 THEN 0 ELSE 12
    IN  [i \in 1..16 |->
            IF i > copy_offset /\ i <= copy_offset + 4
            THEN seq_nbe[i - copy_offset] ELSE 0]

\* XOR of the keystream of (cipher, iv) onto a buffer; cipher is the
\* Schedule the transform reads.
Xor(buf, cipher, iv) ==
    LET pad == <<cipher, iv>>
    IN  [buf EXCEPT !.pads = IF pad \in @ THEN @ \ {pad} ELSE @ \cup {pad}]

\* AES_BLOCK_SIZE
AES_BLOCK_SIZE == 16

\* The CTR counter after one block: the 16 bytes incremented as a
\* big-endian integer.
RECURSIVE IncAt(_, _)
IncAt(block, i) ==
    IF i = 0 THEN block
    ELSE IF block[i] = 255 THEN IncAt([block EXCEPT ![i] = 0], i - 1)
    ELSE [block EXCEPT ![i] = @ + 1]

\* The counter block that encrypts block n (from 0) of a payload.
RECURSIVE CtrBlock(_, _)
CtrBlock(iv, n) ==
    IF n = 0 THEN iv ELSE IncAt(CtrBlock(iv, n - 1), AES_BLOCK_SIZE)

\* The counter blocks the transform of payload_len bytes feeds to AES.
CounterBlocks(iv, payload_len) ==
    { CtrBlock(iv, n) :
        n \in 0..((payload_len + AES_BLOCK_SIZE - 1) \div AES_BLOCK_SIZE) - 1 }

\* Variant of DrawNonce: the first value drawn is taken as it comes.
DrawOnce(draws) == Head(draws)

\* do { n = prand_u32(); } while (!n);
RECURSIVE DrawNonce(_)
DrawNonce(draws) ==
    IF Head(draws) # 0 THEN Head(draws) ELSE DrawNonce(Tail(draws))

(* ------------------------------------------------------------------ *)
(* The functions of psk.c, as functions of the context they are given  *)
(* ------------------------------------------------------------------ *)

\* _librist_crypto_psk_rist_key_init: strcpy of the password, the two
\* parameters, the backend's cipher init (ctx is what linux_crypto_init
\* leaves in the pointer).  Nothing else is written.
psk_rist_key_init(backend, key, key_size, rotation, password, ctx) ==
    [key EXCEPT !.password     = StrCpy(@, password),
                !.key_size     = key_size,
                !.key_rotation = rotation,
                !.cipher       = CipherInit(backend, @),
                !.rest         = RestInit(backend, @),
                !.linux_crypto_ctx = ctx]

\* Variant of psk_rist_key_destroy: the passphrase buffer is scrubbed too.
psk_rist_key_destroy_scrub(backend, key) ==
    IF key.key_size # 0
    THEN [key EXCEPT !.cipher = CipherFree(backend, @),
                     !.rest = RestFree(backend, @),
                     !.linux_crypto_ctx = LinuxCryptoFree(backend, @),
                     !.password = [i \in 1..PwdSize |-> 0]]
    ELSE key

\* _librist_crypto_psk_rist_key_destroy
psk_rist_key_destroy(backend, key) ==
    IF key.key_size # 0
    THEN [key EXCEPT !.cipher = CipherFree(backend, @),
                     !.rest = RestFree(backend, @),
                     !.linux_crypto_ctx = LinuxCryptoFree(backend, @)]
    ELSE key

\* _librist_crypto_psk_rist_key_clone: the new contents of key_out (ctx is
\* what linux_crypto_init leaves in its pointer).
psk_rist_key_clone(backend, key_in, key_out, ctx) ==
    [key_out EXCEPT !.password     = StrCpy(@, CStr(key_in.password)),
                    !.key_size     = key_in.key_size,
                    !.key_rotation = key_in.key_rotation,
                    !.cipher       = CipherInit(backend, @),
                    !.rest         = RestInit(backend, @),
                    !.linux_crypto_ctx = ctx]

\* The bytes PBKDF2 writes to aes_key: key_size / 8 bytes derived from the
\* password up to its NUL, salted with gre_nonce.
DerivedKey(key) ==
    [pwd |-> CStr(key.password), bits |-> key.key_size, salt |-> key.gre_nonce]

\* _librist_crypto_aes_key: PBKDF2 over (password, gre_nonce) for
\* key_size / 8 bytes, loaded as the AES key (into the kernel context when
\* there is one, else into the software cipher state); used_times = 0.
crypto_aes_key(key) ==
    IF key.linux_crypto_ctx # <<>>
    THEN [key EXCEPT !.linux_crypto_ctx = <<DerivedKey(key)>>,
                     !.used_times = 0]
    ELSE [key EXCEPT !.cipher     = DerivedKey(key),
                     !.rest       = RestLoad(key.cipher, key.rest, key.key_size),
                     !.used_times = 0]

\* _librist_crypto_aes_key when a library call fails; used_times = 0 all
\* the same.  mbedtls build, mbedtls_pkcs5_pbkdf2_hmac failing: the return
\* value is dropped and mbedtls_aes_setkey_enc loads key_size bits of
\* whatever the unwritten stack slot aes_key holds.  aes_key names the
\* bytes in the slot as a key does: the first key_size bits of a longer
\* derived key are the derived key of that size (PBKDF2 output is a prefix
\* of a longer output); anything else is the key of no derivation.
\* LINUX_CRYPTO build, linux_crypto_set_key failing: its return value is
\* dropped too and the kernel context keeps what it held.
crypto_aes_key_failed(backend, key, aes_key) ==
    IF backend = "mbedtls"
    THEN [key EXCEPT !.cipher     = [pwd  |-> IF aes_key.bits >= key.key_size
                                              THEN aes_key.pwd ELSE <<0>>,
                                     bits |-> key.key_size,
                                     salt |-> aes_key.salt],
                     !.rest       = RestLoad(key.cipher, key.rest, key.key_size),
                     !.used_times = 0]
    ELSE [key EXCEPT !.used_times = 0]

\* _librist_crypto_psk_aes_ctr: the transform under the round keys the
\* backend reads and the IV of (seq, version); used_times++.
psk_aes_ctr(backend, key, seq_nbe, gre_version, inbuf) ==
    [ key |-> [key EXCEPT !.used_times = @ + 1],
      out |-> Xor(inbuf, Schedule(backend, key), IV(seq_nbe, gre_version)) ]

\* What one call did: the context and output buffer it leaves, its return
\* value, the context right after its derivation step (derived) and the
\* context its CTR transform ran on (transformed).
Result(key, out, ret, derived, dk, transformed, tk) ==
    [ key |-> key, out |-> out, ret |-> ret,
      derived |-> derived, dk |-> dk,
      transformed |-> transformed, tk |-> tk ]

\* Variant of psk_decrypt: nonce 0 is followed like any other nonce.
psk_decrypt_nogate(backend, key, nonce, seq_nbe, gre_version, inbuf, outbuf) ==
    LET follow == nonce # key.gre_nonce
        k1 == IF follow
              THEN [crypto_aes_key([key EXCEPT !.gre_nonce = nonce])
                       EXCEPT !.bad_decryption = FALSE, !.bad_count = 0]
              ELSE key
    IN  IF k1.used_times > RIST_AES_KEY_REUSE_TIMES
        THEN Result(k1, outbuf, 0, follow, k1, FALSE, k1)
        ELSE LET r == psk_aes_ctr(backend, k1, seq_nbe, gre_version, inbuf)
             IN  Result(r.key, r.out, 0, follow, k1, TRUE, k1)

\* Variant of psk_decrypt: the hard cap is not tested.
psk_decrypt_nocap(backend, key, nonce, seq_nbe, gre_version, inbuf, outbuf) ==
    IF nonce = 0
    THEN Result(key, outbuf, 0, FALSE, key, FALSE, key)
    ELSE LET follow == nonce # key.gre_nonce
             k1 == IF follow
                   THEN [crypto_aes_key([key EXCEPT !.gre_nonce = nonce])
                            EXCEPT !.bad_decryption = FALSE, !.bad_count = 0]
                   ELSE key
             r  == psk_aes_ctr(backend, k1, seq_nbe, gre_version, inbuf)
         IN  Result(r.key, r.out, 0, follow, k1, TRUE, k1)

\* Variant of psk_decrypt: every non-zero announcement re-derives.
psk_decrypt_always(backend, key, nonce, seq_nbe, gre_version, inbuf, outbuf) ==
    IF nonce = 0
    THEN Result(key, outbuf, 0, FALSE, key, FALSE, key)
    ELSE LET k1 == [crypto_aes_key([key EXCEPT !.gre_nonce = nonce])
                       EXCEPT !.bad_decryption = FALSE, !.bad_count = 0]
         IN  IF k1.used_times > RIST_AES_KEY_REUSE_TIMES
             THEN Result(k1, outbuf, 0, TRUE, k1, FALSE, k1)
             ELSE LET r == psk_aes_ctr(backend, k1, seq_nbe, gre_version, inbuf)
                  IN  Result(r.key, r.out, 0, TRUE, k1, TRUE, k1)

\* _librist_crypto_psk_decrypt
psk_decrypt(backend, key, nonce, seq_nbe, gre_version, inbuf, outbuf) ==
    IF nonce = 0
    THEN Result(key, outbuf, 0, FALSE, key, FALSE, key)
    ELSE LET follow == nonce # key.gre_nonce
             k1 == IF follow
                   THEN [crypto_aes_key([key EXCEPT !.gre_nonce = nonce])
                            EXCEPT !.bad_decryption = FALSE, !.bad_count = 0]
                   ELSE key
         IN  IF k1.used_times > RIST_AES_KEY_REUSE_TIMES
             THEN Result(k1, outbuf, 0, follow, k1, FALSE, k1)
             ELSE LET r == psk_aes_ctr(backend, k1, seq_nbe, gre_version, inbuf)
                  IN  Result(r.key, r.out, 0, follow, k1, TRUE, k1)

\* Variant of psk_encrypt: the hard cap is tested as in decrypt
\* (used_times > cap instead of used_times + 1 > cap).
psk_encrypt_late(backend, key, draws, seq_nbe, gre_version, inbuf) ==
    LET rotate == \/ key.gre_nonce = 0
                  \/ key.used_times > RIST_AES_KEY_REUSE_TIMES
                  \/ (key.key_rotation > 0 /\ key.used_times >= key.key_rotation)
        k1 == IF rotate
              THEN crypto_aes_key([key EXCEPT !.gre_nonce = DrawNonce(draws)])
              ELSE key
        r  == psk_aes_ctr(backend, k1, seq_nbe, gre_version, inbuf)
    IN  Result(r.key, r.out, 0, rotate, k1, TRUE, k1)

\* Variant of psk_encrypt: proactive rotation one packet late
\* (used_times > key_rotation instead of used_times >= key_rotation).
psk_encrypt_norot(backend, key, draws, seq_nbe, gre_version, inbuf) ==
    LET rotate == \/ key.gre_nonce = 0
                  \/ key.used_times + 1 > RIST_AES_KEY_REUSE_TIMES
                  \/ (key.key_rotation > 0 /\ key.used_times > key.key_rotation)
        k1 == IF rotate
              THEN crypto_aes_key([key EXCEPT !.gre_nonce = DrawNonce(draws)])
              ELSE key
        r  == psk_aes_ctr(backend, k1, seq_nbe, gre_version, inbuf)
    IN  Result(r.key, r.out, 0, rotate, k1, TRUE, k1)

\* _librist_crypto_psk_encrypt
psk_encrypt(backend, key, draws, seq_nbe, gre_version, inbuf) ==
    LET rotate == \/ key.gre_nonce = 0
                  \/ key.used_times + 1 > RIST_AES_KEY_REUSE_TIMES
                  \/ (key.key_rotation > 0 /\ key.used_times >= key.key_rotation)
        k1 == IF rotate
              THEN crypto_aes_key([key EXCEPT !.gre_nonce = DrawNonce(draws)])
              ELSE key
        r  == psk_aes_ctr(backend, k1, seq_nbe, gre_version, inbuf)
    IN  Result(r.key, r.out, 0, rotate, k1, TRUE, k1)

\* Variant of psk_set_passphrase: the length is not tested.
psk_set_passphrase_nocheck(key, draws, passphrase, passphrase_len, outbuf) ==
    LET k1 == crypto_aes_key(
                [key EXCEPT !.password  = MemCpy(@, passphrase, passphrase_len),
                            !.gre_nonce = DrawNonce(draws)])
    IN  Result(k1, outbuf, 0, TRUE, k1, FALSE, k1)

\* _librist_crypto_psk_set_passphrase
psk_set_passphrase(key, draws, passphrase, passphrase_len, outbuf) ==
    IF passphrase_len > PwdSize - 1
    THEN Result(key, outbuf, -1, FALSE, key, FALSE, key)
    ELSE LET k1 == crypto_aes_key(
                     [key EXCEPT !.password  = MemCpy(@, passphrase, passphrase_len),
                                 !.gre_nonce = DrawNonce(draws)])
         IN  Result(k1, outbuf, 0, TRUE, k1, FALSE, k1)

\* _librist_crypto_psk_decrypt, the derivation failing
psk_decrypt_failed(backend, key, nonce, seq_nbe, gre_version, inbuf, outbuf, aes_key) ==
    IF nonce = 0
    THEN Result(key, outbuf, 0, FALSE, key, FALSE, key)
    ELSE LET follow == nonce # key.gre_nonce
             k1 == IF follow
                   THEN [crypto_aes_key_failed(backend, [key EXCEPT !.gre_nonce = nonce], aes_key)
                            EXCEPT !.bad_decryption = FALSE, !.bad_count = 0]
                   ELSE key
         IN  IF k1.used_times > RIST_AES_KEY_REUSE_TIMES
             THEN Result(k1, outbuf, 0, follow, k1, FALSE, k1)
             ELSE LET r == psk_aes_ctr(backend, k1, seq_nbe, gre_version, inbuf)
                  IN  Result(r.key, r.out, 0, follow, k1, TRUE, k1)

\* _librist_crypto_psk_encrypt, the derivation failing
psk_encrypt_failed(backend, key, draws, seq_nbe, gre_version, inbuf, aes_key) ==
    LET rotate == \/ key.gre_nonce = 0
                  \/ key.used_times + 1 > RIST_AES_KEY_REUSE_TIMES
                  \/ (key.key_rotation > 0 /\ key.used_times >= key.key_rotation)
        k1 == IF rotate
              THEN crypto_aes_key_failed(backend,
                      [key EXCEPT !.gre_nonce = DrawNonce(draws)], aes_key)
              ELSE key
        r  == psk_aes_ctr(backend, k1, seq_nbe, gre_version, inbuf)
    IN  Result(r.key, r.out, 0, rotate, k1, TRUE, k1)

\* _librist_crypto_psk_set_passphrase, the derivation failing
psk_set_passphrase_failed(backend, key, draws, passphrase, passphrase_len, outbuf, aes_key) ==
    IF passphrase_len > PwdSize - 1
    THEN Result(key, outbuf, -1, FALSE, key, FALSE, key)
    ELSE LET k1 == crypto_aes_key_failed(backend,
                     [key EXCEPT !.password  = MemCpy(@, passphrase, passphrase_len),
                                 !.gre_nonce = DrawNonce(draws)], aes_key)
         IN  Result(k1, outbuf, 0, TRUE, k1, FALSE, k1)

(* ------------------------------------------------------------------ *)
(* State                                                               *)
(* ------------------------------------------------------------------ *)

VARIABLES
    backend,   \* the crypto backend the library was built with
    keys,      \* the rist_key contexts, one per peer
    outbuf,    \* the caller's output buffer
    wire,      \* the packet in flight from peer 1 to peer 2
    keyuse,    \* per peer, the packets transformed under each derived key
    ctr,       \* two packets and the counter blocks their transforms feed to AES
    run,       \* the call in progress, statement by statement
    failed,    \* per peer, whether the key in the cipher state was loaded by
               \* a derivation whose PBKDF2 failed
    kernel,    \* LINUX_CRYPTO build: whether the kernel hands out cipher
               \* contexts (FALSE in the other builds)
    last       \* the call that produced this state

vars == <<backend, keys, outbuf, wire, keyuse, ctr, run, failed, kernel, last>>

Call(op, peer, arg, pre, r) ==
    [ op |-> op, peer |-> peer, arg |-> arg, pre |-> pre, ret |-> r.ret,
      derived |-> r.derived, dk |-> r.dk,
      transformed |-> r.transformed, tk |-> r.tk ]

NoCall == Call("none", 0, 0, ZeroKey,
               Result(ZeroKey, NoBuf, 0, FALSE, ZeroKey, FALSE, ZeroKey))

\* Both contexts are created by init in zeroed memory.
Init ==
    /\ backend \in Backends
    /\ kernel \in { b \in BOOLEAN : b => backend = "linux" }
    /\ keys \in [Peers -> { psk_rist_key_init(backend, ZeroKey,
                                p.key_size, p.rotation, p.password,
                                LinuxCryptoInit(backend, kernel)) : p \in Params }]
    /\ outbuf = NoBuf
    /\ wire = NoPacket
    /\ keyuse = [p \in Peers |-> [c \in {} |-> 0]]
    /\ ctr = NoCtr
    /\ run = NoRun
    /\ failed = [p \in Peers |-> FALSE]
    /\ last = NoCall

(* ------------------------------------------------------------------ *)
(* The calls on one context                                            *)
(* ------------------------------------------------------------------ *)

\* The context of peer k is in use: destroy ends a context's life, and only
\* init or clone starts a new one in its memory.
Live(k) == ~(last.op = "destroy" /\ last.peer = k)

KeyInit(k) ==
    \E p \in Params :
        LET n == psk_rist_key_init(backend, keys[k], p.key_size, p.rotation, p.password,
                                   LinuxCryptoInit(backend, kernel))
        IN  /\ keys' = [keys EXCEPT ![k] = n]
            /\ last' = Call("init", k, 0, keys[k],
                            Result(n, outbuf, 0, FALSE, n, FALSE, n))
            /\ failed' = [failed EXCEPT ![k] = @ /\ n.cipher = keys[k].cipher
                                              /\ n.linux_crypto_ctx = <<>>]
            /\ UNCHANGED <<backend, kernel, outbuf, wire, keyuse, ctr, run>>

KeyClone(src, k) ==
    LET n == psk_rist_key_clone(backend, keys[src], keys[k],
                                LinuxCryptoInit(backend, kernel))
    IN  /\ keys' = [keys EXCEPT ![k] = n]
        /\ last' = Call("clone", k, src, keys[k],
                        Result(n, outbuf, 0, FALSE, n, FALSE, n))
        /\ failed' = [failed EXCEPT ![k] = @ /\ n.cipher = keys[k].cipher
                                              /\ n.linux_crypto_ctx = <<>>]
        /\ UNCHANGED <<backend, kernel, outbuf, wire, keyuse, ctr, run>>

KeyDestroy(k) ==
    LET n == psk_rist_key_destroy(backend, keys[k])
    IN  /\ keys' = [keys EXCEPT ![k] = n]
        /\ last' = Call("destroy", k, 0, keys[k],
                        Result(n, outbuf, 0, FALSE, n, FALSE, n))
        /\ failed' = [failed EXCEPT ![k] = @ /\ Loaded(n) = Loaded(keys[k])]
        /\ UNCHANGED <<backend, kernel, outbuf, wire, keyuse, ctr, run>>

SetPassphrase(k) ==
    /\ Live(k)
    /\ \E pass \in PassIn, draws \in Draws :
        LET r == psk_set_passphrase(keys[k], draws, pass, Len(pass), outbuf)
        IN  /\ keys' = [keys EXCEPT ![k] = r.key]
            /\ last' = Call("set_passphrase", k, pass, keys[k], r)
            /\ failed' = [failed EXCEPT ![k] = @ /\ ~r.derived]
            /\ UNCHANGED <<backend, kernel, outbuf, wire, keyuse, ctr, run>>

Encrypt(k) ==
    /\ Live(k)
    /\ \E draws \in Draws, p \in CallPackets :
        LET r == psk_encrypt(backend, keys[k], draws, p.seq, p.ver, Buf(p.data))
        IN  /\ keys' = [keys EXCEPT ![k] = r.key]
            /\ outbuf' = r.out
            /\ last' = Call("encrypt", k, 0, keys[k], r)
            /\ failed' = [failed EXCEPT ![k] = @ /\ ~r.derived]
            /\ UNCHANGED <<backend, kernel, wire, keyuse, ctr, run>>

Decrypt(k) ==
    /\ Live(k)
    /\ \E nonce \in 0..MaxNonce, p \in CallPackets :
        LET r == psk_decrypt(backend, keys[k], nonce, p.seq, p.ver, Buf(p.data), outbuf)
        IN  /\ keys' = [keys EXCEPT ![k] = r.key]
            /\ outbuf' = r.out
            /\ last' = Call("decrypt", k, nonce, keys[k], r)
            /\ failed' = [failed EXCEPT ![k] = @ /\ ~r.derived]
            /\ UNCHANGED <<backend, kernel, wire, keyuse, ctr, run>>

\* The receive path outside psk.c flags a packet that decrypted to garbage.
MarkBad(k) ==
    /\ Live(k)
    /\ keys[k].bad_count < MaxBad
    /\ LET n == [keys[k] EXCEPT !.bad_decryption = TRUE, !.bad_count = @ + 1]
       IN  /\ keys' = [keys EXCEPT ![k] = n]
           /\ last' = Call("mark_bad", k, 0, keys[k],
                           Result(n, outbuf, 0, FALSE, n, FALSE, n))
    /\ UNCHANGED <<backend, kernel, outbuf, wire, keyuse, ctr, run, failed>>

\* Any sequence of calls on the context of peer 1; peer 2's context is the
\* source of clone.
Next ==
    \/ KeyInit(1)
    \/ KeyClone(2, 1)
    \/ KeyDestroy(1)
    \/ SetPassphrase(1)
    \/ Encrypt(1)
    \/ Decrypt(1)
    \/ MarkBad(1)

\* Peer 1 starts from any init; peer 2, which no call changes, from the
\* init that sets key_rotation.  The LINUX_CRYPTO build runs on a kernel that
\* hands out cipher contexts: on one that does not, every call takes the
\* path of the built-in build.
InitCalls ==
    /\ Init
    /\ keys[2].key_rotation > 0
    /\ backend = "linux" => kernel

Spec == InitCalls /\ [][Next]_vars

(* ------------------------------------------------------------------ *)
(* A stream: peer 1 encrypts, the packets reach peer 2 in order          *)
(* ------------------------------------------------------------------ *)

\* The ledger of packets transformed under each loaded key, counted up to
\* one past the cap.
Used(ledger, r) ==
    IF ~r.transformed THEN ledger
    ELSE LET c == Loaded(r.tk)
             n == IF c \in DOMAIN ledger THEN ledger[c] ELSE 0
             m == IF n > RIST_AES_KEY_REUSE_TIMES THEN n ELSE n + 1
         IN  [x \in DOMAIN ledger \cup {c} |-> IF x = c THEN m ELSE ledger[x]]

\* Peer 1 encrypts the next payload; the protocol layer puts the context's
\* gre_nonce and the sequence number in the GRE header.
LinkSend ==
    /\ ~wire.full
    /\ \E draws \in Draws, p \in Packets :
        LET r == psk_encrypt(backend, keys[1], draws, p.seq, p.ver, Buf(p.data))
        IN  /\ keys' = [keys EXCEPT ![1] = r.key]
            /\ outbuf' = r.out
            /\ wire' = [nonce |-> r.key.gre_nonce, seq |-> p.seq, ver |-> p.ver,
                        buf |-> r.out, full |-> TRUE]
            /\ keyuse' = [keyuse EXCEPT ![1] = Used(@, r)]
            /\ last' = Call("encrypt", 1, 0, keys[1], r)
            /\ failed' = [failed EXCEPT ![1] = @ /\ ~r.derived]
    /\ UNCHANGED <<backend, kernel, ctr, run>>

\* Peer 2 decrypts the packet in flight with the nonce it announces.
LinkDeliver ==
    /\ wire.full
    /\ LET r == psk_decrypt(backend, keys[2], wire.nonce, wire.seq, wire.ver, wire.buf, outbuf)
       IN  /\ keys' = [keys EXCEPT ![2] = r.key]
           /\ outbuf' = r.out
           /\ wire' = [wire EXCEPT !.full = FALSE]
           /\ keyuse' = [keyuse EXCEPT ![2] = Used(@, r)]
           /\ last' = Call("decrypt", 2, wire.nonce, keys[2], r)
           /\ failed' = [failed EXCEPT ![2] = @ /\ ~r.derived]
    /\ UNCHANGED <<backend, kernel, ctr, run>>

NextLink == LinkSend \/ LinkDeliver

SpecLink == Init /\ [][NextLink]_vars

(* ------------------------------------------------------------------ *)
(* init with any arguments                                             *)
(* ------------------------------------------------------------------ *)

\* Arguments of init beyond the supported key sizes.
InitArgs ==
    { [password |-> pw, key_size |-> ks, rotation |-> 0] :
        pw \in { <<1>>, <<1, 2>> }, ks \in {64, 128, 192, 256} }

KeyInitAny(k) ==
    \E a \in InitArgs :
        LET n == psk_rist_key_init(backend, keys[k], a.key_size, a.rotation, a.password,
                                   LinuxCryptoInit(backend, kernel))
        IN  /\ keys' = [keys EXCEPT ![k] = n]
            /\ last' = Call("init", k, a.key_size, keys[k],
                            Result(n, outbuf, 0, FALSE, n, FALSE, n))
            /\ failed' = [failed EXCEPT ![k] = @ /\ n.cipher = keys[k].cipher
                                              /\ n.linux_crypto_ctx = <<>>]
            /\ UNCHANGED <<backend, kernel, outbuf, wire, keyuse, ctr, run>>

NextInit == \E k \in Peers : KeyInitAny(k)

SpecInit == Init /\ [][NextInit]_vars

(* ------------------------------------------------------------------ *)
(* Calls whose derivation fails in the library                         *)
(* ------------------------------------------------------------------ *)

\* Byte patterns that are the key of no derivation: as many as one state
\* can hold apart (the key the output buffer was transformed under, the key
\* the context held before the call, the key it holds now).
Junk == {1, 2, 3}

\* The keys the derivations of the process write to aes_key, on any of its
\* contexts: those of the passwords, key sizes and nonces in play.
SlotKeys ==
    { [pwd |-> w, bits |-> p.key_size, salt |-> n] :
        w \in { q.password : q \in Params } \cup { q \in PassIn : Len(q) < PwdSize },
        p \in Params, n \in Nonces }

\* What the uninitialised aes_key may hold when it is read: whatever earlier
\* frames left at its address, bytes that are no key or the key of any
\* earlier derivation of the process, the last or an older one, for this
\* context or another.  A failing derivation writes nothing there.
AesKeySlot ==
    { [pwd |-> <<0>>, bits |-> 256, salt |-> j] : j \in Junk } \cup SlotKeys

\* The derivations whose failure goes unnoticed: mbedtls_pkcs5_pbkdf2_hmac
\* and linux_crypto_set_key return a value that is dropped; the other key
\* loads return nothing.
DerivationCanFail(key) ==
    backend = "mbedtls" \/ key.linux_crypto_ctx # <<>>

\* The bytes the key load reads from aes_key in a failing derivation: the
\* unwritten slot when PBKDF2 failed (mbedtls), none that matter when the
\* kernel refused the key PBKDF2 wrote (LINUX_CRYPTO).
SlotRead == IF backend = "mbedtls" THEN AesKeySlot ELSE {EmptyCipher}

\* set_passphrase reaches its derivation with a passphrase that fits.
SetPassphraseFailed(k) ==
    /\ DerivationCanFail(keys[k])
    /\ \E pass \in { q \in PassIn : Len(q) < PwdSize }, draws \in Draws, aes_key \in SlotRead :
        LET r == psk_set_passphrase_failed(backend, keys[k], draws, pass, Len(pass), outbuf, aes_key)
        IN  /\ keys' = [keys EXCEPT ![k] = r.key]
            /\ last' = Call("set_passphrase", k, pass, keys[k], r)
            /\ failed' = [failed EXCEPT ![k] = @ \/ r.derived]
            /\ UNCHANGED <<backend, kernel, outbuf, wire, keyuse, ctr, run>>

EncryptFailed(k) ==
    /\ DerivationCanFail(keys[k])
    /\ \E draws \in Draws, p \in CallPackets, aes_key \in SlotRead :
        LET r == psk_encrypt_failed(backend, keys[k], draws, p.seq, p.ver, Buf(p.data), aes_key)
        IN  /\ keys' = [keys EXCEPT ![k] = r.key]
            /\ outbuf' = r.out
            /\ last' = Call("encrypt", k, 0, keys[k], r)
            /\ failed' = [failed EXCEPT ![k] = @ \/ r.derived]
            /\ UNCHANGED <<backend, kernel, wire, keyuse, ctr, run>>

DecryptFailed(k) ==
    /\ DerivationCanFail(keys[k])
    /\ \E nonce \in 0..MaxNonce, p \in CallPackets, aes_key \in SlotRead :
        LET r == psk_decrypt_failed(backend, keys[k], nonce, p.seq, p.ver, Buf(p.data), outbuf, aes_key)
        IN  /\ keys' = [keys EXCEPT ![k] = r.key]
            /\ outbuf' = r.out
            /\ last' = Call("decrypt", k, nonce, keys[k], r)
            /\ failed' = [failed EXCEPT ![k] = @ \/ r.derived]
            /\ UNCHANGED <<backend, kernel, wire, keyuse, ctr, run>>

\* Calls on the context of peer 1 whose derivation may fail, and init of
\* that context.
NextFail ==
    \/ SetPassphraseFailed(1)
    \/ EncryptFailed(1)
    \/ DecryptFailed(1)
    \/ Encrypt(1)
    \/ Decrypt(1)
    \/ KeyInit(1)

\* The builds with a derivation whose failure goes unnoticed.
InitFail == InitCalls /\ backend \in {"mbedtls", "linux"}

SpecFail == InitFail /\ [][NextFail]_vars

(* ------------------------------------------------------------------ *)
(* The counter blocks of two packets under one key                     *)
(* ------------------------------------------------------------------ *)

\* A context holding a derived key (init, then set_passphrase drawing 1),
\* and two packets to transform under it.
InitCtr ==
    /\ backend \in Backends
    /\ kernel \in { b \in BOOLEAN : b => backend = "linux" }
    /\ keys = [p \in Peers |->
                 crypto_aes_key(
                   [psk_rist_key_init(backend, ZeroKey, 128, 0, <<1, 2>>,
                                      LinuxCryptoInit(backend, kernel))
                      EXCEPT !.gre_nonce = 1])]
    /\ outbuf = NoBuf
    /\ wire = NoPacket
    /\ keyuse = [p \in Peers |-> [c \in {} |-> 0]]
    /\ last = NoCall
    /\ run = NoRun
    /\ failed = [p \in Peers |-> FALSE]
    /\ ctr \in { [NoCtr EXCEPT !.a = a, !.b = b, !.ver = v, !.lena = la, !.lenb = lb] :
                    a \in CtrSeqs, b \in CtrSeqs, v \in CtrVers,
                    la \in CtrLens, lb \in CtrLens }

\* One call of _librist_crypto_psk_aes_ctr on the context of peer 1, for
\* packet p ("a" or "b"): the transform written to outbuf, used_times++,
\* and on record the IV and the counter blocks the call fed to AES.
CtrTransform(p) ==
    /\ p \notin ctr.calls
    /\ LET seq == IF p = "a" THEN ctr.a ELSE ctr.b
           len == IF p = "a" THEN ctr.lena ELSE ctr.lenb
           iv  == IV(seq, ctr.ver)
           r   == psk_aes_ctr(backend, keys[1], seq, ctr.ver, Buf(1))
       IN  /\ keys' = [keys EXCEPT ![1] = r.key]
           /\ outbuf' = r.out
           /\ ctr' = IF p = "a"
                     THEN [ctr EXCEPT !.iva = iv,
                                      !.blocksa = CounterBlocks(iv, len),
                                      !.calls = @ \cup {p}]
                     ELSE [ctr EXCEPT !.ivb = iv,
                                      !.blocksb = CounterBlocks(iv, len),
                                      !.calls = @ \cup {p}]
    /\ UNCHANGED <<backend, kernel, wire, keyuse, last, run, failed>>

NextCtr == \E p \in {"a", "b"} : CtrTransform(p)

SpecCtr == InitCtr /\ [][NextCtr]_vars

(* ------------------------------------------------------------------ *)
(* encrypt and set_passphrase statement by statement: the draw loop    *)
(* ------------------------------------------------------------------ *)

\* The condition of encrypt's if: a new nonce is needed.
encrypt_rotate(key) ==
    \/ key.gre_nonce = 0
    \/ key.used_times + 1 > RIST_AES_KEY_REUSE_TIMES
    \/ (key.key_rotation > 0 /\ key.used_times >= key.key_rotation)

\* Variant of LoopAgain: the loop ends on one particular value only.
LoopAgain_until(gre_nonce) == gre_nonce # MaxNonce

\* while (!key->gre_nonce)
LoopAgain(gre_nonce) == gre_nonce = 0

\* encrypt is entered: the if is evaluated.
EncryptEnter(k) ==
    /\ run.pc = "idle"
    /\ \E p \in Packets :
         run' = [ pc |-> IF encrypt_rotate(keys[k]) THEN "draw" ELSE "ctr",
                  op |-> "encrypt", pkt |-> p, seen |-> {}, ret |-> 0 ]
    /\ UNCHANGED <<backend, kernel, keys, outbuf, wire, keyuse, ctr, last, failed>>

\* set_passphrase is entered: the length test, then the memcpy.
SetPassphraseEnter(k) ==
    /\ run.pc = "idle"
    /\ \E pass \in PassIn :
         IF Len(pass) > PwdSize - 1
         THEN /\ run' = [NoRun EXCEPT !.op = "set_passphrase", !.ret = -1]
              /\ UNCHANGED keys
         ELSE /\ run' = [NoRun EXCEPT !.op = "set_passphrase", !.pc = "draw"]
              /\ keys' = [keys EXCEPT ![k].password = MemCpy(@, pass, Len(pass))]
    /\ UNCHANGED <<backend, kernel, outbuf, wire, keyuse, ctr, last, failed>>

\* key->gre_nonce = prand_u32(), the value returned being v.
Prand(k, v) ==
    /\ run.pc = "draw"
    /\ keys' = [keys EXCEPT ![k].gre_nonce = v]
    /\ run' = [run EXCEPT !.pc = "test", !.seen = @ \cup {v}]
    /\ UNCHANGED <<backend, kernel, outbuf, wire, keyuse, ctr, last, failed>>

PrandZero(k) == Prand(k, 0)

PrandNonZero(k) == \E v \in Nonces : Prand(k, v)

\* The loop's test.
LoopTest(k) ==
    /\ run.pc = "test"
    /\ run' = [run EXCEPT !.pc = IF LoopAgain(keys[k].gre_nonce)
                                 THEN "draw" ELSE "derive"]
    /\ UNCHANGED <<backend, kernel, keys, outbuf, wire, keyuse, ctr, last, failed>>

\* _librist_crypto_aes_key(key); set_passphrase then returns 0.
Derive(k) ==
    /\ run.pc = "derive"
    /\ keys' = [keys EXCEPT ![k] = crypto_aes_key(@)]
    /\ run' = [run EXCEPT !.pc = IF run.op = "encrypt" THEN "ctr" ELSE "idle"]
    /\ failed' = [failed EXCEPT ![k] = FALSE]
    /\ UNCHANGED <<backend, kernel, outbuf, wire, keyuse, ctr, last>>

\* _librist_crypto_psk_aes_ctr(...); encrypt then returns.
Transform(k) ==
    /\ run.pc = "ctr"
    /\ LET r == psk_aes_ctr(backend, keys[k], run.pkt.seq, run.pkt.ver, Buf(run.pkt.data))
       IN  /\ keys' = [keys EXCEPT ![k] = r.key]
           /\ outbuf' = r.out
    /\ run' = [run EXCEPT !.pc = "idle"]
    /\ UNCHANGED <<backend, kernel, wire, keyuse, ctr, last, failed>>

\* The statements the code runs by itself once a call is entered.
Statements(k) == LoopTest(k) \/ Derive(k) \/ Transform(k)

NextSteps ==
    \/ EncryptEnter(1)
    \/ SetPassphraseEnter(1)
    \/ PrandZero(1)
    \/ PrandNonZero(1)
    \/ LoopTest(1)
    \/ Derive(1)
    \/ Transform(1)

\* The code runs on from statement to statement, and the random source
\* does not return 0 forever.
SpecSteps ==
    /\ Init
    /\ [][NextSteps]_vars
    /\ WF_vars(Statements(1))
    /\ SF_vars(PrandNonZero(1))

\* The same without the assumption on the random source.
SpecStepsAnyRng ==
    /\ Init
    /\ [][NextSteps]_vars
    /\ WF_vars(Statements(1))
    /\ WF_vars(PrandZero(1) \/ PrandNonZero(1))

(* ------------------------------------------------------------------ *)
(* Properties                                                          *)
(* ------------------------------------------------------------------ *)

SamePsk(a, b) ==
    CStr(a.password) = CStr(b.password) /\ a.key_size = b.key_size

\* C1: when peer 2 holds the same password and key_size as peer 1 and
\* decrypts peer 1's packet with the nonce, seq and version it carries, its
\* output buffer is the original payload (checked under SpecLink).
C1_RoundTrip ==
    (last.op = "decrypt" /\ last.peer = 2 /\ SamePsk(keys[1], keys[2]))
        => outbuf = Buf(wire.buf.data)

\* C2: on every context, no derived key has transformed more than
\* RIST_AES_KEY_REUSE_TIMES packets (checked under SpecLink).
C2_HardCapPerKey ==
    \A p \in Peers : \A c \in DOMAIN keyuse[p] :
        keyuse[p][c] <= RIST_AES_KEY_REUSE_TIMES

\* C3: between operations used_times never exceeds RIST_AES_KEY_REUSE_TIMES.
C3_UsedTimesCap ==
    \A p \in Peers : keys[p].used_times <= RIST_AES_KEY_REUSE_TIMES

\* C4: right after an encrypt call, 1 <= used_times <= RIST_AES_KEY_REUSE_TIMES,
\* whatever the context held before.
C4_EncryptUsedRange ==
    last.op = "encrypt" =>
        /\ keys[last.peer].used_times >= 1
        /\ keys[last.peer].used_times <= RIST_AES_KEY_REUSE_TIMES

\* C4 witness: an encrypt called with used_times above the cap.
C4_Witness ==
    /\ last.op = "encrypt"
    /\ last.pre.used_times > RIST_AES_KEY_REUSE_TIMES
    /\ keys[last.peer].used_times = 1

\* C5: an encrypt that rotates installs a nonce different from the one the
\* previous encrypt used (checked under SpecLink, where peer 1 only encrypts).
C5_RotationChangesNonce ==
    (last.op = "encrypt" /\ last.derived /\ last.pre.gre_nonce # 0)
        => keys[last.peer].gre_nonce # last.pre.gre_nonce

\* C6: a nonce installed for a derivation is never 0, encrypt and a
\* successful set_passphrase leave gre_nonce non-zero, encrypt transforms
\* under a non-zero gre_nonce, and decrypt never changes gre_nonce to 0.
C6_NonceNonZero ==
    /\ last.derived => last.dk.gre_nonce # 0
    /\ last.op = "encrypt" =>
          /\ keys[last.peer].gre_nonce # 0
          /\ last.transformed /\ last.tk.gre_nonce # 0
    /\ (last.op = "set_passphrase" /\ last.ret = 0) => keys[last.peer].gre_nonce # 0
    /\ (last.op = "decrypt" /\ keys[last.peer].gre_nonce # last.pre.gre_nonce)
          => keys[last.peer].gre_nonce # 0

\* C6 witness: an encrypt that bootstrapped a context whose nonce was unset.
C6_Witness ==
    /\ last.op = "encrypt"
    /\ last.pre.gre_nonce = 0
    /\ last.derived /\ last.transformed
    /\ keys[last.peer].gre_nonce # 0

\* C7: a decrypt call announcing nonce 0 changes neither the context
\* (gre_nonce, used_times, bad_decryption, bad_count, cipher state) nor the
\* output buffer.
C7_ZeroNonceNoEffect ==
    [][(last'.op = "decrypt" /\ last'.arg = 0)
          => (keys' = keys /\ outbuf' = outbuf)]_vars

\* C7 witness: nonce 0 announced to a context that is in use.
C7_Witness ==
    /\ last.op = "decrypt" /\ last.arg = 0
    /\ keys[last.peer].gre_nonce # 0
    /\ keys[last.peer].used_times > 0
    /\ keys[last.peer].bad_decryption
    /\ outbuf # NoBuf

\* C8: a decrypt call announcing the current gre_nonce while used_times is
\* above the cap leaves the output buffer and used_times as they were.
C8_HardCapRefusal ==
    [][(/\ last'.op = "decrypt"
        /\ last'.arg # 0
        /\ last'.arg = keys[last'.peer].gre_nonce
        /\ keys[last'.peer].used_times > RIST_AES_KEY_REUSE_TIMES)
          => (/\ outbuf' = outbuf
              /\ keys'[last'.peer].used_times = keys[last'.peer].used_times)]_vars

\* C8 witness: a packet refused at the hard cap.
C8_Witness ==
    /\ last.op = "decrypt" /\ last.arg # 0
    /\ last.arg = last.pre.gre_nonce
    /\ last.pre.used_times > RIST_AES_KEY_REUSE_TIMES
    /\ ~last.transformed

\* C9: clone leaves its target with the source's password, key_size and
\* key_rotation, an empty cipher state, gre_nonce = 0 and used_times = 0.
C9_CloneFresh ==
    last.op = "clone" =>
        /\ SamePsk(keys[last.peer], keys[last.arg])
        /\ keys[last.peer].key_rotation = keys[last.arg].key_rotation
        /\ Loaded(keys[last.peer]) = EmptyCipher
        /\ keys[last.peer].gre_nonce = 0
        /\ keys[last.peer].used_times = 0

\* C10: right after every derivation, whichever call triggered it,
\* used_times = 0, bad_decryption = FALSE and bad_count = 0.
C10_DerivationClearsAll ==
    last.derived =>
        /\ last.dk.used_times = 0
        /\ last.dk.bad_decryption = FALSE
        /\ last.dk.bad_count = 0

\* The key PBKDF2 derives from a context's current fields.
KeyOf(key) ==
    [pwd |-> CStr(key.password), bits |-> key.key_size, salt |-> key.gre_nonce]

\* C11: after a successful set_passphrase the context's passphrase is
\* exactly the bytes passed, and the cipher state is the key derived from
\* them and the new nonce, with used_times = 0.
C11_PassphraseOverwritten ==
    (last.op = "set_passphrase" /\ last.ret = 0) =>
        /\ CStr(keys[last.peer].password) = last.arg
        /\ Loaded(keys[last.peer]) =
              [pwd |-> last.arg, bits |-> keys[last.peer].key_size,
               salt |-> keys[last.peer].gre_nonce]
        /\ keys[last.peer].used_times = 0

\* C13: set_passphrase with a passphrase longer than the buffer allows
\* returns -1 and changes nothing.
C13_LongPassphraseRejected ==
    [][(last'.op = "set_passphrase" /\ Len(last'.arg) > PwdSize - 1)
          => (last'.ret = -1 /\ keys' = keys /\ outbuf' = outbuf)]_vars

\* C13 witness: an overlong passphrase refused on a context in use.
C13_Witness ==
    /\ last.op = "set_passphrase" /\ Len(last.arg) > PwdSize - 1
    /\ last.ret = -1
    /\ keys[last.peer].gre_nonce # 0
    /\ keys[last.peer].used_times > 0

\* C14: decrypt re-derives exactly when the announced nonce is non-zero and
\* differs from gre_nonce; it then holds the announced nonce, the key derived
\* from it, and cleared diagnostics; otherwise nonce and key stay.
C14_NonceFollow ==
    last.op = "decrypt" =>
        LET k == keys[last.peer]
        IN  /\ last.derived <=> (last.arg # 0 /\ last.arg # last.pre.gre_nonce)
            /\ last.derived =>
                  /\ k.gre_nonce = last.arg
                  /\ Loaded(k) = KeyOf(k)
                  /\ k.used_times = 1
                  /\ k.bad_decryption = FALSE /\ k.bad_count = 0
            /\ ~last.derived =>
                  /\ k.gre_nonce = last.pre.gre_nonce
                  /\ Loaded(k) = Loaded(last.pre)
                  /\ k.used_times >= last.pre.used_times
                  /\ k.bad_count = last.pre.bad_count

\* C14 witness: the announcement changes from one non-zero nonce to another
\* on a context that had counted packets and bad decryptions.
C14_Witness ==
    /\ last.op = "decrypt" /\ last.derived /\ last.transformed
    /\ last.pre.gre_nonce # 0 /\ last.arg # last.pre.gre_nonce
    /\ last.pre.used_times > 1 /\ last.pre.bad_count > 0
    /\ keys[last.peer].gre_nonce = last.arg

\* C16: encrypt, decrypt and destroy leave password, key_size and
\* key_rotation alone; set_passphrase leaves key_size and key_rotation alone.
C16_ParameterFrame ==
    [][LET p == last'.peer
       IN  /\ last'.op \in {"encrypt", "decrypt", "destroy"} =>
                /\ keys'[p].password = keys[p].password
                /\ keys'[p].key_size = keys[p].key_size
                /\ keys'[p].key_rotation = keys[p].key_rotation
           /\ last'.op = "set_passphrase" =>
                /\ keys'[p].key_size = keys[p].key_size
                /\ keys'[p].key_rotation = keys[p].key_rotation]_vars

\* C16 witness: destroy of a context that holds a derived key.
C16_Witness ==
    /\ last.op = "destroy"
    /\ last.pre.gre_nonce # 0 /\ Loaded(last.pre) # EmptyCipher
    /\ CStr(keys[last.peer].password) # <<>>

\* C17: whenever the CTR transform runs, the loaded key is the key derived
\* from the context's current password, key_size and gre_nonce.
C17_CipherConsistent ==
    last.transformed => Loaded(last.tk) = KeyOf(last.tk)

\* C20: right after an encrypt, used_times <= key_rotation when key_rotation
\* is set; when it is 0 the call re-derived exactly if gre_nonce was 0 or
\* used_times had reached the hard cap.
C20_ProactiveRotation ==
    last.op = "encrypt" =>
        LET k == keys[last.peer]
        IN  /\ k.key_rotation > 0 => k.used_times <= k.key_rotation
            /\ last.derived => k.used_times = 1
            /\ ~last.derived => k.used_times = last.pre.used_times + 1
            /\ k.key_rotation = 0 =>
                  (last.derived <=>
                      \/ last.pre.gre_nonce = 0
                      \/ last.pre.used_times >= RIST_AES_KEY_REUSE_TIMES)

\* C20 witness: the encrypt that follows key_rotation packets under one nonce.
C20_Witness ==
    /\ last.op = "encrypt" /\ last.derived
    /\ last.pre.key_rotation > 0
    /\ last.pre.key_rotation < RIST_AES_KEY_REUSE_TIMES
    /\ last.pre.used_times = last.pre.key_rotation
    /\ last.pre.gre_nonce # 0
    /\ keys[last.peer].used_times = 1

SupportedKeySizes == {128, 192, 256}

\* C12: a context that init reported as created has a supported key_size
\* (init fails on any other key_size); checked under SpecInit.
C12_InitValidates ==
    (last.op = "init" /\ last.ret = 0)
        => keys[last.peer].key_size \in SupportedKeySizes

\* C15: a call whose derivation failed returns an error, and no transform
\* runs under the key such a derivation left (checked under SpecFail).
C15_DerivationFailure ==
    last.op # "none" =>
        /\ (last.derived /\ failed[last.peer]) => last.ret # 0
        /\ last.transformed => ~failed[last.peer]

\* C18 as stated: under one key, two packets with different seq share no
\* counter block, for any gre_version and any payload length (SpecCtr).
C18_CounterBlocksDisjoint ==
    (ctr.calls = {"a", "b"} /\ ctr.a # ctr.b) => ctr.blocksa \cap ctr.blocksb = {}

\* C18 amended: they share no counter block when gre_version is 1 (seq in
\* the high 4 bytes of the counter), and for other versions when both
\* payloads are a single block.
C18_CounterBlocksDisjointV1 ==
    (ctr.calls = {"a", "b"} /\ ctr.a # ctr.b
       /\ (ctr.ver = 1 \/ (ctr.lena <= AES_BLOCK_SIZE /\ ctr.lenb <= AES_BLOCK_SIZE)))
        => ctr.blocksa \cap ctr.blocksb = {}

\* C18 witness: two multi-block packets of version 1 with adjacent seq.
C18_Witness ==
    /\ ctr.calls = {"a", "b"} /\ ctr.ver = 1
    /\ keys[1].used_times = 2
    /\ ctr.a = <<0, 0, 0, 1>> /\ ctr.b = <<0, 0, 0, 2>>
    /\ Cardinality(ctr.blocksa) = 3 /\ Cardinality(ctr.blocksb) = 2

\* C19: the IV is zero except for the 4 bytes of seq, at [0..4) for
\* gre_version 1 and at [12..16) for every other version (SpecCtr).
C19_IVLayout ==
    "a" \in ctr.calls =>
        /\ Len(ctr.iva) = AES_BLOCK_SIZE
        /\ \A i \in 1..AES_BLOCK_SIZE :
              ctr.iva[i] =
                 IF ctr.ver = 1
                 THEN (IF i <= 4 THEN ctr.a[i] ELSE 0)
                 ELSE (IF i >= 13 THEN ctr.a[i - 12] ELSE 0)

\* C19 witness: a seq with distinct bytes placed for a version other than 0 and 1.
C19_Witness ==
    /\ "a" \in ctr.calls /\ ctr.ver = 2
    /\ ctr.a = <<0, 0, 1, 0>>
    /\ ctr.iva[15] = 1 /\ ctr.iva[3] = 0

\* C21: every encrypt and set_passphrase call terminates provided the
\* random source does not return 0 forever; the draw loop repeats exactly
\* while the value drawn is 0, and the call goes on with the first non-zero
\* value drawn as gre_nonce (checked under SpecSteps).
C21_DrawTerminates ==
    /\ (run.pc # "idle") ~> (run.pc = "idle")
    /\ [](run.seen # {} /\ run.pc \notin {"draw", "test"}
            => /\ keys[1].gre_nonce # 0
               /\ run.seen \subseteq {0, keys[1].gre_nonce})
    /\ [][run.pc = "test" =>
            run'.pc = (IF keys[1].gre_nonce = 0 THEN "draw" ELSE "derive")]_vars

\* A call has returned after drawing 0 and then a non-zero value.
C21_Witness ==
    /\ run.pc = "idle"
    /\ run.op \in {"encrypt", "set_passphrase"}
    /\ 0 \in run.seen
    /\ keys[1].gre_nonce \in run.seen \ {0}

====
